---- MODULE Spec2Model ----
(***************************************************************************)
(* Roku integration: the media player entity's derived properties, the    *)
(* command handlers of the media player and remote entities, and the      *)
(* exception handler that wraps them.                                     *)
(*                                                                        *)
(* Text that the handlers take apart (media ids, sources, app ids) is a   *)
(* sequence of one-character strings.  Names that are only compared with  *)
(* literals (remote keys, the active app's name, media types, states)     *)
(* are TLA+ strings.  An Optional value is None (the empty tuple) or      *)
(* Some(v) (the one-element tuple).                                       *)
(***************************************************************************)
EXTENDS Integers, Sequences, FiniteSets, TLC

VARIABLES
    data,       \* coordinator.data: the current device snapshot
    available,  \* entity.available (coordinator.last_update_success)
    attrs,      \* the entity properties as last written to the host
    pc,         \* position of the command invocation: idle, await, done
    cmd,        \* the invocation's handler and arguments
    cont,       \* what the handler does when the awaited vendor call returns
    rep,        \* send_command: repeats completed
    pos,        \* send_command: index in the command list of the key in flight
    seen,       \* the value of self.state the handler read at its gate
    calls,      \* outbound calls issued by the invocation, in order
    error,      \* the exception the invocation's vendor call raised
    outcome,    \* pending, returned (to the caller) or raised (to the caller)
    log         \* error lines the invocation logged

vars == <<data, available, attrs, pc, cmd, cont, rep, pos, seen, calls, error,
          outcome, log>>

None == << >>
Some(v) == <<v>>

\* ------------------------------------------------------------------ bounds
MaxDuration == 1
MaxPosition == 1
MaxIdLen == 3
MaxCommands == 2
MaxRepeats == 2

\* --------------------------------------------------------- state constants
STATE_HOME == "home"
STATE_IDLE == "idle"
STATE_ON == "on"
STATE_PAUSED == "paused"
STATE_PLAYING == "playing"
STATE_STANDBY == "standby"

MEDIA_TYPE_APP == "app"
MEDIA_TYPE_CHANNEL == "channel"
FORMAT_CONTENT_TYPE_HLS == "application/vnd.apple.mpegurl"

\* ---------------------------------------------------------------- snapshot
ActiveAppNames == {"Power Saver", "Roku", "Netflix", ""}

ActiveApps == [name : ActiveAppNames, screensaver : BOOLEAN]

Medias ==
    [paused : BOOLEAN, live : BOOLEAN, duration : 0..MaxDuration,
     position : 0..MaxPosition, at : {1}]

Home == <<"H", "o", "m", "e">>

InstalledApps ==
    { [name |-> Home, app_id |-> <<"7">>],
      [name |-> <<"N">>, app_id |-> <<"1", "2">>],
      [name |-> <<"T">>, app_id |-> Home] }

EntitySnapshots ==
    [standby : BOOLEAN,
     app : {None} \cup {Some(a) : a \in ActiveApps},
     media : {None} \cup {Some(m) : m \in Medias},
     apps : {<< >>}]

\* The snapshots the command handlers run against.  Of the snapshots with
\* standby set only those without active app and media are drawn: state
\* reads nothing else once standby is set.
CommandSnapshots ==
    { d \in [standby : BOOLEAN,
             app : {None, Some([name |-> "Netflix", screensaver |-> FALSE])},
             media : {None} \cup
                     {Some([paused |-> p, live |-> FALSE, duration |-> 1,
                            position |-> 0, at |-> 1]) : p \in BOOLEAN},
             apps : {<< >>} \cup {<<a>> : a \in InstalledApps}] :
        d.standby => (d.app = None /\ d.media = None) }

\* ------------------------------------------------------ derived properties
_media_playback_trackable_ignoring_live(d) ==
    IF d.media = None
    THEN FALSE
    ELSE d.media[1].duration > 0

_media_playback_trackable(d) ==
    IF d.media = None \/ d.media[1].live
    THEN FALSE
    ELSE d.media[1].duration > 0

state_home_first(d) ==
    IF d.standby THEN Some(STATE_STANDBY)
    ELSE IF d.app = None THEN None
    ELSE IF d.app[1].name = "Roku" THEN Some(STATE_HOME)
    ELSE IF d.app[1].name = "Power Saver" \/ d.app[1].screensaver
         THEN Some(STATE_IDLE)
    ELSE IF d.media # None
         THEN IF d.media[1].paused THEN Some(STATE_PAUSED)
              ELSE Some(STATE_PLAYING)
    ELSE IF d.app[1].name # "" THEN Some(STATE_ON)
    ELSE None

state_media_first(d) ==
    IF d.standby THEN Some(STATE_STANDBY)
    ELSE IF d.app = None THEN None
    ELSE IF d.app[1].name = "Power Saver" \/ d.app[1].screensaver
         THEN Some(STATE_IDLE)
    ELSE IF d.media # None
         THEN IF d.media[1].paused THEN Some(STATE_PAUSED)
              ELSE Some(STATE_PLAYING)
    ELSE IF d.app[1].name = "Roku" THEN Some(STATE_HOME)
    ELSE IF d.app[1].name # "" THEN Some(STATE_ON)
    ELSE None

state(d) ==
    IF d.standby THEN Some(STATE_STANDBY)
    ELSE IF d.app = None THEN None
    ELSE IF d.app[1].name = "Power Saver" \/ d.app[1].screensaver
         THEN Some(STATE_IDLE)
    ELSE IF d.app[1].name = "Roku" THEN Some(STATE_HOME)
    ELSE IF d.media # None
         THEN IF d.media[1].paused THEN Some(STATE_PAUSED)
              ELSE Some(STATE_PLAYING)
    ELSE IF d.app[1].name # "" THEN Some(STATE_ON)
    ELSE None

media_duration(d) ==
    IF _media_playback_trackable(d) THEN Some(d.media[1].duration) ELSE None

media_position_from_duration(d) ==
    IF _media_playback_trackable(d) THEN Some(d.media[1].duration) ELSE None

media_position(d) ==
    IF _media_playback_trackable(d) THEN Some(d.media[1].position) ELSE None

media_position_updated_at(d) ==
    IF _media_playback_trackable(d) THEN Some(d.media[1].at) ELSE None

\* The properties the host reads when the entity's state is written.
EntityAttrs(d) ==
    [state |-> state(d),
     media_duration |-> media_duration(d),
     media_position |-> media_position(d),
     media_position_updated_at |-> media_position_updated_at(d)]

\* -------------------------------------------------------------------- text
Alphabet == {"1", " ", ",", "/"}

Texts(n) == UNION {[1..k -> Alphabet] : k \in 0..n}

Whitespace == {" "}

Unreserved == {"1"}

\* str.split(sep): the parts between the separators, at least one part.
RECURSIVE split(_, _)
split(s, sep) ==
    IF s = << >> THEN << << >> >>
    ELSE LET rest == split(Tail(s), sep)
         IN  IF Head(s) = sep
             THEN << << >> >> \o rest
             ELSE << <<Head(s)>> \o Head(rest) >> \o Tail(rest)

RECURSIVE lstrip(_)
lstrip(s) ==
    IF s # << >> /\ Head(s) \in Whitespace THEN lstrip(Tail(s)) ELSE s

RECURSIVE rstrip(_)
rstrip(s) ==
    IF s # << >> /\ s[Len(s)] \in Whitespace
    THEN rstrip(SubSeq(s, 1, Len(s) - 1))
    ELSE s

strip(s) == rstrip(lstrip(s))

\* urllib.parse.quote(c, safe=""): "%" and the two hex digits of the byte.
PercentEncoded(c) ==
    CASE c = " " -> <<"%", "2", "0">>
      [] c = "," -> <<"%", "2", "C">>
      [] c = "/" -> <<"%", "2", "F">>

quote_identity(s) == s

RECURSIVE quote(_)
quote(s) ==
    IF s = << >> THEN << >>
    ELSE (IF Head(s) \in Unreserved THEN <<Head(s)>> ELSE PercentEncoded(Head(s)))
         \o quote(Tail(s))

\* ---------------------------------------------------------- outbound calls
Remote(k) == [op |-> "remote", key |-> k, text |-> << >>, params |-> None]

\* params is None or Some(c) for the parameter map {"contentId": c}.
Launch(id, p) == [op |-> "launch", key |-> "", text |-> id, params |-> p]

Tune(ch) == [op |-> "tune", key |-> "", text |-> ch, params |-> None]

Search(kw) == [op |-> "search", key |-> "", text |-> kw, params |-> None]

RequestRefresh ==
    [op |-> "request_refresh", key |-> "", text |-> << >>, params |-> None]

\* ---------------------------------------------------------------- commands
Command(e, n) ==
    [entity |-> e, name |-> n, media_type |-> "", text |-> << >>,
     command |-> << >>, num_repeats |-> 0, mute |-> FALSE]

NoCommand == Command("", "")

RemoteKeys == {"up", "select"}

CommandLists == UNION {[1..k -> RemoteKeys] : k \in 1..MaxCommands}

MediaTypes ==
    {MEDIA_TYPE_APP, MEDIA_TYPE_CHANNEL, FORMAT_CONTENT_TYPE_HLS, "music"}

Sources == {Home, <<"N">>, <<"1", "2">>, <<"T">>, <<"X">>}

Keywords == {<<"1">>}

\* The media ids of the specification of all commands; PlayMediaSpec draws
\* them from every text up to MaxIdLen.
CommandMediaIds == {<<"1">>, <<"1", ",", "/">>}

\* The handler starts: the caller awaits it.
Invoke(c) ==
    /\ pc = "idle"
    /\ cmd' = c
    /\ UNCHANGED <<data, available, attrs, error>>

\* The handler issues a vendor call and is suspended until it returns or raises.
Await(call, k) ==
    /\ calls' = Append(calls, call)
    /\ pc' = "await"
    /\ cont' = k
    /\ outcome' = "pending"

\* The handler runs to its end and returns to the caller.
Finish(cs) ==
    /\ calls' = calls \o cs
    /\ pc' = "done"
    /\ cont' = ""
    /\ outcome' = "returned"

\* ---------------------------------------------- media player: the handlers
async_turn_on ==
    /\ Invoke(Command("media_player", "turn_on"))
    /\ Await(Remote("poweron"), "refresh")
    /\ UNCHANGED <<rep, pos, seen, log>>

async_turn_off ==
    /\ Invoke(Command("media_player", "turn_off"))
    /\ Await(Remote("poweroff"), "refresh")
    /\ UNCHANGED <<rep, pos, seen, log>>

async_media_pause_ungated ==
    /\ Invoke(Command("media_player", "media_pause"))
    /\ seen' = Some(state(data))
    /\ IF state(data) \notin {Some(STATE_STANDBY)}
       THEN Await(Remote("play"), "refresh")
       ELSE Finish(<< >>)
    /\ UNCHANGED <<rep, pos, log>>

async_media_pause ==
    /\ Invoke(Command("media_player", "media_pause"))
    /\ seen' = Some(state(data))
    /\ IF state(data) \notin {Some(STATE_STANDBY), Some(STATE_PAUSED)}
       THEN Await(Remote("play"), "refresh")
       ELSE Finish(<< >>)
    /\ UNCHANGED <<rep, pos, log>>

async_media_play ==
    /\ Invoke(Command("media_player", "media_play"))
    /\ seen' = Some(state(data))
    /\ IF state(data) \notin {Some(STATE_STANDBY), Some(STATE_PLAYING)}
       THEN Await(Remote("play"), "refresh")
       ELSE Finish(<< >>)
    /\ UNCHANGED <<rep, pos, log>>

async_media_play_pause ==
    /\ Invoke(Command("media_player", "media_play_pause"))
    /\ seen' = Some(state(data))
    /\ IF state(data) \notin {Some(STATE_STANDBY)}
       THEN Await(Remote("play"), "refresh")
       ELSE Finish(<< >>)
    /\ UNCHANGED <<rep, pos, log>>

async_media_previous_track ==
    /\ Invoke(Command("media_player", "media_previous_track"))
    /\ Await(Remote("reverse"), "refresh")
    /\ UNCHANGED <<rep, pos, seen, log>>

async_media_next_track ==
    /\ Invoke(Command("media_player", "media_next_track"))
    /\ Await(Remote("forward"), "refresh")
    /\ UNCHANGED <<rep, pos, seen, log>>

async_mute_volume ==
    \E mute \in BOOLEAN :
        /\ Invoke([Command("media_player", "mute_volume") EXCEPT !.mute = mute])
        /\ Await(Remote("volume_mute"), "refresh")
        /\ UNCHANGED <<rep, pos, seen, log>>

async_volume_up_refreshing ==
    /\ Invoke(Command("media_player", "volume_up"))
    /\ Await(Remote("volume_up"), "refresh")
    /\ UNCHANGED <<rep, pos, seen, log>>

async_volume_up ==
    /\ Invoke(Command("media_player", "volume_up"))
    /\ Await(Remote("volume_up"), "end")
    /\ UNCHANGED <<rep, pos, seen, log>>

async_volume_down ==
    /\ Invoke(Command("media_player", "volume_down"))
    /\ Await(Remote("volume_down"), "end")
    /\ UNCHANGED <<rep, pos, seen, log>>

search ==
    \E keyword \in Keywords :
        /\ Invoke([Command("media_player", "search") EXCEPT !.text = keyword])
        /\ Await(Search(keyword), "end")
        /\ UNCHANGED <<rep, pos, seen, log>>

\* The vendor call async_play_media issues for a supported media type.
play_media_call(media_type, media_id) ==
    IF media_type = MEDIA_TYPE_APP
    THEN LET media_array == split(media_id, ",")
         IN  IF Len(media_array) > 1
             THEN Launch(strip(media_array[1]),
                         Some(quote(strip(media_array[2]))))
             ELSE Launch(media_id, None)
    ELSE IF media_type = FORMAT_CONTENT_TYPE_HLS
    THEN Launch(<<"d", "e", "v">>, Some(quote(media_id)))
    ELSE Tune(media_id)

async_play_media(media_ids) ==
    \E media_type \in MediaTypes, media_id \in media_ids :
        /\ Invoke([Command("media_player", "play_media")
                      EXCEPT !.media_type = media_type, !.text = media_id])
        /\ IF media_type \notin
                {MEDIA_TYPE_APP, MEDIA_TYPE_CHANNEL, FORMAT_CONTENT_TYPE_HLS}
           THEN /\ log' = Append(log, "Invalid media type")
                /\ Finish(<< >>)
           ELSE /\ log' = log
                /\ Await(play_media_call(media_type, media_id), "refresh")
        /\ UNCHANGED <<rep, pos, seen>>

\* next(app for app in apps if source in (app.name, app.app_id)), or None.
RECURSIVE find_app(_, _)
find_app(apps, source) ==
    IF apps = << >> THEN None
    ELSE IF source = Head(apps).name \/ source = Head(apps).app_id
         THEN Some(Head(apps))
         ELSE find_app(Tail(apps), source)

\* async_select_source from the app lookup on, reading the current snapshot.
select_source_launch(source) ==
    LET appl == find_app(data.apps, source)
    IN  IF appl # None
        THEN Await(Launch(appl[1].app_id, None), "refresh")
        ELSE Finish(<<RequestRefresh>>)

async_select_source ==
    \E source \in Sources :
        /\ Invoke([Command("media_player", "select_source")
                      EXCEPT !.text = source])
        /\ IF source = Home
           THEN Await(Remote("home"), "lookup")
           ELSE select_source_launch(source)
        /\ UNCHANGED <<rep, pos, seen, log>>

\* async_select_source resumes after the "home" key was sent.
select_source_resume ==
    /\ pc = "await"
    /\ cont = "lookup"
    /\ select_source_launch(cmd.text)
    /\ UNCHANGED <<data, available, attrs, cmd, rep, pos, seen, error, log>>

\* --------------------------------------------------- remote: the handlers
RokuRemote_async_turn_on ==
    /\ Invoke(Command("remote", "turn_on"))
    /\ Await(Remote("poweron"), "refresh")
    /\ UNCHANGED <<rep, pos, seen, log>>

RokuRemote_async_turn_off ==
    /\ Invoke(Command("remote", "turn_off"))
    /\ Await(Remote("poweroff"), "refresh")
    /\ UNCHANGED <<rep, pos, seen, log>>

\* The iteration of "for _ in range(n): for single_command in command" that
\* follows iteration (r, p), or None when both loops are exhausted.
send_command_next_key_major(command, n, r, p) ==
    IF r + 1 < n THEN Some([rep |-> r + 1, pos |-> p])
    ELSE IF p < Len(command) THEN Some([rep |-> 0, pos |-> p + 1])
    ELSE None

send_command_next(command, n, r, p) ==
    IF p < Len(command) THEN Some([rep |-> r, pos |-> p + 1])
    ELSE IF r + 1 < n THEN Some([rep |-> r + 1, pos |-> 1])
    ELSE None

\* command is not empty (the host validates the service call), so the first
\* iteration exists whenever num_repeats > 0.
RokuRemote_async_send_command ==
    \E command \in CommandLists, num_repeats \in 0..MaxRepeats :
        /\ Invoke([Command("remote", "send_command")
                      EXCEPT !.command = command, !.num_repeats = num_repeats])
        /\ IF num_repeats > 0
           THEN /\ rep' = 0
                /\ pos' = 1
                /\ Await(Remote(command[1]), "loop")
           ELSE /\ UNCHANGED <<rep, pos>>
                /\ Finish(<<RequestRefresh>>)
        /\ UNCHANGED <<seen, log>>

\* async_send_command resumes after a key was sent.
send_command_resume ==
    /\ pc = "await"
    /\ cont = "loop"
    /\ LET nxt == send_command_next(cmd.command, cmd.num_repeats, rep, pos)
       IN  IF nxt # None
           THEN /\ rep' = nxt[1].rep
                /\ pos' = nxt[1].pos
                /\ Await(Remote(cmd.command[nxt[1].pos]), "loop")
           ELSE /\ UNCHANGED <<rep, pos>>
                /\ Finish(<<RequestRefresh>>)
    /\ UNCHANGED <<data, available, attrs, cmd, seen, error, log>>

\* ------------------------------------------ the awaited vendor call returns
\* The handler's last vendor call returned: it requests a refresh and
\* returns.  The refresh request is a call to the coordinator, not to the
\* vendor client, and raises neither vendor error.
refresh_resume ==
    /\ pc = "await"
    /\ cont = "refresh"
    /\ Finish(<<RequestRefresh>>)
    /\ UNCHANGED <<data, available, attrs, cmd, rep, pos, seen, error, log>>

\* The handler's only vendor call returned and nothing follows it.
plain_resume ==
    /\ pc = "await"
    /\ cont = "end"
    /\ Finish(<< >>)
    /\ UNCHANGED <<data, available, attrs, cmd, rep, pos, seen, error, log>>

\* ------------------------------------------- the awaited vendor call raises
VendorErrors == {"RokuConnectionError", "RokuError"}

\* The except clauses of the wrapper (RokuConnectionError is a RokuError).
roku_exception_handler_connection_only(err) ==
    IF err = "RokuConnectionError"
    THEN /\ outcome' = "returned"
         /\ log' = IF available
                   THEN Append(log, "Error communicating with API")
                   ELSE log
    ELSE /\ outcome' = "raised"
         /\ log' = log

roku_exception_handler(err) ==
    IF err = "RokuConnectionError"
    THEN /\ outcome' = "returned"
         /\ log' = IF available
                   THEN Append(log, "Error communicating with API")
                   ELSE log
    ELSE IF err = "RokuError"
    THEN /\ outcome' = "returned"
         /\ log' = IF available
                   THEN Append(log, "Invalid response from API")
                   ELSE log
    ELSE /\ outcome' = "raised"
         /\ log' = log

vendor_call_raises ==
    \E err \in VendorErrors :
        /\ pc = "await"
        /\ error' = err
        /\ roku_exception_handler(err)
        /\ pc' = "done"
        /\ cont' = ""
        /\ UNCHANGED <<data, available, attrs, cmd, rep, pos, seen, calls>>

\* The caller gets the handler's result; the entity takes the next command.
handler_returns ==
    /\ pc = "done"
    /\ pc' = "idle"
    /\ cmd' = NoCommand
    /\ cont' = ""
    /\ rep' = 0
    /\ pos' = 0
    /\ seen' = None
    /\ calls' = << >>
    /\ error' = "none"
    /\ outcome' = "pending"
    /\ log' = << >>
    /\ UNCHANGED <<data, available, attrs>>

\* ------------------------------------------------------------- coordinator
\* A poll succeeds: the snapshot is replaced and the entity's state written.
coordinator_update(snapshots) ==
    /\ data' \in snapshots
    /\ available' = TRUE
    /\ attrs' = EntityAttrs(data')
    /\ UNCHANGED <<pc, cmd, cont, rep, pos, seen, calls, error, outcome, log>>

\* A poll fails: the snapshot stays and the entity becomes unavailable.
coordinator_update_failed ==
    /\ available' = FALSE
    /\ UNCHANGED <<data, attrs, pc, cmd, cont, rep, pos, seen, calls, error,
                   outcome, log>>

\* ---------------------------------------------------------- specifications
Idle ==
    /\ pc = "idle"
    /\ cmd = NoCommand
    /\ cont = ""
    /\ rep = 0
    /\ pos = 0
    /\ seen = None
    /\ calls = << >>
    /\ error = "none"
    /\ outcome = "pending"
    /\ log = << >>

Init ==
    /\ data \in CommandSnapshots
    /\ available = TRUE
    /\ attrs = EntityAttrs(data)
    /\ Idle

Next ==
    \/ async_turn_on
    \/ async_turn_off
    \/ async_media_pause
    \/ async_media_play
    \/ async_media_play_pause
    \/ async_media_previous_track
    \/ async_media_next_track
    \/ async_mute_volume
    \/ async_volume_up
    \/ async_volume_down
    \/ search
    \/ async_play_media(CommandMediaIds)
    \/ async_select_source
    \/ select_source_resume
    \/ RokuRemote_async_turn_on
    \/ RokuRemote_async_turn_off
    \/ RokuRemote_async_send_command
    \/ send_command_resume
    \/ refresh_resume
    \/ plain_resume
    \/ vendor_call_raises
    \/ handler_returns
    \/ coordinator_update(CommandSnapshots)
    \/ coordinator_update_failed

Spec == Init /\ [][Next]_vars

\* The entity alone: the coordinator polls and the properties are written.
EntityInit ==
    /\ data \in EntitySnapshots
    /\ available = TRUE
    /\ attrs = EntityAttrs(data)
    /\ Idle

EntityNext ==
    \/ coordinator_update(EntitySnapshots)
    \/ coordinator_update_failed

EntitySpec == EntityInit /\ [][EntityNext]_vars

\* play_media alone, over every media id up to MaxIdLen.
PlayMediaSnapshots ==
    {d \in CommandSnapshots : d.apps = << >> /\ d.media = None}

PlayMediaInit ==
    /\ data \in PlayMediaSnapshots
    /\ available = TRUE
    /\ attrs = EntityAttrs(data)
    /\ Idle

PlayMediaNext ==
    \/ async_play_media(Texts(MaxIdLen))
    \/ refresh_resume
    \/ vendor_call_raises
    \/ handler_returns
    \/ coordinator_update(PlayMediaSnapshots)
    \/ coordinator_update_failed

PlayMediaSpec == PlayMediaInit /\ [][PlayMediaNext]_vars

\* ================================================================== claims
\* The parts of the snapshot the state rule reads.
AppPresent == data.app # None

AppName == data.app[1].name

AppIdle == AppName = "Power Saver" \/ data.app[1].screensaver

MediaPresent == data.media # None

Media == data.media[1]

\* C1: the derived state follows the first-match precedence rule: standby,
\* then no active app (unknown), then power saver or screensaver (idle),
\* then the home launcher (home), then media paused or playing, then a
\* named app (on), else unknown.  Each rule is stated with the negation of
\* the rules before it.
C1_StatePrecedence ==
    /\ data.standby => attrs.state = Some(STATE_STANDBY)
    /\ (~data.standby /\ ~AppPresent) => attrs.state = None
    /\ (~data.standby /\ AppPresent) =>
          /\ AppIdle => attrs.state = Some(STATE_IDLE)
          /\ (~AppIdle /\ AppName = "Roku") => attrs.state = Some(STATE_HOME)
          /\ (~AppIdle /\ AppName # "Roku" /\ MediaPresent) =>
                /\ Media.paused => attrs.state = Some(STATE_PAUSED)
                /\ ~Media.paused => attrs.state = Some(STATE_PLAYING)
          /\ (~AppIdle /\ AppName # "Roku" /\ ~MediaPresent) =>
                /\ AppName # "" => attrs.state = Some(STATE_ON)
                /\ AppName = "" => attrs.state = None

\* C1 witness: the home launcher with its screensaver running and media
\* present: rule 3 wins over rules 4 and 5.
C1_Witness ==
    /\ ~data.standby
    /\ AppPresent
    /\ AppName = "Roku"
    /\ data.app[1].screensaver
    /\ MediaPresent
    /\ attrs.state = Some(STATE_IDLE)

\* C7 as stated: an active app named "Roku" and standby false give "home",
\* whatever the screensaver flag and the media fields.
C7_HomeForEveryScreensaver ==
    (AppPresent /\ AppName = "Roku" /\ ~data.standby)
        => attrs.state = Some(STATE_HOME)

\* C7 amended: an active app named "Roku" whose screensaver flag is not set,
\* and standby false, give "home", whatever the media fields.
C7_HomeWithoutScreensaver ==
    (AppPresent /\ AppName = "Roku" /\ ~data.app[1].screensaver /\ ~data.standby)
        => attrs.state = Some(STATE_HOME)

\* C7 witness: the home launcher, no screensaver, media playing.
C7_Witness ==
    /\ AppPresent
    /\ AppName = "Roku"
    /\ ~data.app[1].screensaver
    /\ ~data.standby
    /\ MediaPresent
    /\ ~Media.paused
    /\ attrs.state = Some(STATE_HOME)

\* The snapshots C8 is about.
C8_Case ==
    MediaPresent /\ ~Media.paused /\ ~Media.live /\ Media.duration > 0

C8_Tracked ==
    /\ attrs.media_duration = Some(Media.duration)
    /\ attrs.media_position = Some(Media.position)

\* C8 as stated: media present, not paused, not live, duration > 0 give the
\* state "playing" and present duration and position, whatever the standby
\* flag and the active app.
C8_PlayingForEveryApp ==
    C8_Case => (attrs.state = Some(STATE_PLAYING) /\ C8_Tracked)

\* C8 amended: for such media the duration and position are present
\* whatever the standby flag and the active app; the state is "playing"
\* when standby is false and an active app is present that is neither the
\* power saver, nor flagged screensaver, nor the home launcher.
C8_PlayingInAnApp ==
    C8_Case =>
        /\ C8_Tracked
        /\ (~data.standby /\ AppPresent /\ ~AppIdle /\ AppName # "Roku")
              => attrs.state = Some(STATE_PLAYING)

\* C8 witness: tracked media playing in an app, position differing from
\* the duration.
C8_Witness ==
    /\ C8_Case
    /\ ~data.standby
    /\ AppPresent
    /\ AppName = "Netflix"
    /\ ~data.app[1].screensaver
    /\ Media.position # Media.duration
    /\ attrs.state = Some(STATE_PLAYING)
    /\ attrs.media_position = Some(Media.position)

\* C9: duration, position and position timestamp are all present or all
\* absent, and present exactly when media exists, is not live and has a
\* duration greater than 0.
C9_TrackableTogether ==
    LET trackable == MediaPresent /\ ~Media.live /\ Media.duration > 0
    IN  /\ trackable =>
              /\ attrs.media_duration # None
              /\ attrs.media_position # None
              /\ attrs.media_position_updated_at # None
        /\ ~trackable =>
              /\ attrs.media_duration = None
              /\ attrs.media_position = None
              /\ attrs.media_position_updated_at = None

\* C9 witness: live media with a positive duration, all three absent.
C9_Witness ==
    /\ MediaPresent
    /\ Media.live
    /\ Media.duration > 0
    /\ attrs.media_duration = None
    /\ attrs.media_position = None
    /\ attrs.media_position_updated_at = None

\* ------------------------------------------------------ claims on commands
IsCommand(e, n) == cmd.entity = e /\ cmd.name = n

\* The positions in the invocation's calls of the calls of one kind.
Issued(op) == {k \in 1..Len(calls) : calls[k].op = op}

Refreshes == Cardinality(Issued("request_refresh"))

VendorCalls == (1..Len(calls)) \ Issued("request_refresh")

\* C2: whichever vendor error a wrapped handler's vendor call raises, and
\* whether or not the entity is available, the invocation returns normally
\* to the caller, and from the failure on it issues no further call: the
\* failed call is the invocation's last.
C2_SwallowedNotRetried ==
    /\ [](pc = "done" => outcome = "returned")
    /\ [][error' # "none" =>
            /\ calls' = calls
            /\ pc' = "done"
            /\ outcome' = "returned"
            /\ calls'[Len(calls')].op # "request_refresh"]_vars

\* C2 witness: a generic vendor error while the entity is unavailable, in
\* the second key of send_command: swallowed, nothing logged, nothing more
\* issued.
C2_Witness ==
    /\ IsCommand("remote", "send_command")
    /\ error = "RokuError"
    /\ ~available
    /\ log = << >>
    /\ pc = "done"
    /\ outcome = "returned"
    /\ Len(calls) = 2
    /\ Len(calls) < cmd.num_repeats * Len(cmd.command)

\* The key send_command sends k-th: the list repeated, in list order.
C3_Key(k) == cmd.command[((k - 1) % Len(cmd.command)) + 1]

C3_Sends == cmd.num_repeats * Len(cmd.command)

\* C3: send_command(C, num_repeats = N), N >= 1, sends the keys of C in list
\* order, N times over; the only refresh request comes after the last key;
\* an invocation in which no call fails ends with exactly N * len(C) sends
\* and one refresh request.
C3_SendCommandOrder ==
    (IsCommand("remote", "send_command") /\ cmd.num_repeats >= 1) =>
        /\ \A k \in 1..Len(calls) :
              IF k <= C3_Sends
              THEN calls[k] = Remote(C3_Key(k))
              ELSE k = C3_Sends + 1 /\ calls[k] = RequestRefresh
        /\ (pc = "done" /\ error = "none") => Len(calls) = C3_Sends + 1

\* C3 witness: send_command(["up", "select"], 2) completed: four sends and
\* the refresh request.
C3_Witness ==
    /\ IsCommand("remote", "send_command")
    /\ cmd.command = <<"up", "select">>
    /\ cmd.num_repeats = 2
    /\ pc = "done"
    /\ error = "none"
    /\ calls = <<Remote("up"), Remote("select"), Remote("up"),
                 Remote("select"), RequestRefresh>>

\* C4 as stated: volume_up and volume_down request no refresh; every
\* invocation of any other command requests exactly one.
C4_OneRefreshPerInvocation ==
    pc = "done" =>
        Refreshes = IF cmd.name \in {"volume_up", "volume_down"} THEN 0 ELSE 1

\* The states in which a gated command sends nothing.
GateSkips(n) ==
    CASE n = "media_pause" -> {Some(STATE_STANDBY), Some(STATE_PAUSED)}
      [] n = "media_play" -> {Some(STATE_STANDBY), Some(STATE_PLAYING)}
      [] n = "media_play_pause" -> {Some(STATE_STANDBY)}

GatedCommands == {"media_pause", "media_play", "media_play_pause"}

\* The invocation's precondition failed: a gated command in a state it
\* skips, or play_media with an unsupported media type.
C4_NoOp ==
    \/ cmd.name \in GatedCommands /\ seen[1] \in GateSkips(cmd.name)
    \/ /\ cmd.name = "play_media"
       /\ cmd.media_type \notin
             {MEDIA_TYPE_APP, MEDIA_TYPE_CHANNEL, FORMAT_CONTENT_TYPE_HLS}

\* C4 amended: volume_up, volume_down and search never request a refresh;
\* an invocation of any other command requests exactly one refresh, after
\* its last vendor call, when its precondition holds and no vendor call
\* fails, and none otherwise.
C4_RefreshWhenCompleted ==
    /\ Refreshes <= 1
    /\ pc = "await" => Refreshes = 0
    /\ pc = "done" =>
          Refreshes = IF \/ cmd.name \in {"volume_up", "volume_down", "search"}
                         \/ error # "none"
                         \/ C4_NoOp
                      THEN 0
                      ELSE 1

\* C4 witness: search completed without an error and without a refresh
\* request.
C4_Witness ==
    /\ IsCommand("media_player", "search")
    /\ pc = "done"
    /\ error = "none"
    /\ calls = <<Search(cmd.text)>>

\* C5 as stated: select_source("Home") sends the "home" key, then requests
\* one refresh, and launches nothing, whatever the installed apps are.
C5_HomeLaunchesNothing ==
    (IsCommand("media_player", "select_source") /\ cmd.text = Home) =>
        /\ Issued("launch") = {}
        /\ (pc = "done" /\ error = "none")
              => calls = <<Remote("home"), RequestRefresh>>

\* C10: media_pause, media_play and media_play_pause read the state of the
\* snapshot current at invocation; in a state the command skips the
\* invocation issues nothing; otherwise it sends the "play" key once, and
\* nothing else but the refresh request that follows when the send returns.
C10_PlayKeyGate ==
    /\ [][(pc = "idle" /\ cmd'.name \in GatedCommands)
              => seen' = Some(attrs.state)]_vars
    /\ [](cmd.name \in GatedCommands =>
            /\ seen # None
            /\ IF seen[1] \in GateSkips(cmd.name)
               THEN calls = << >> /\ pc = "done"
               ELSE /\ Issued("remote") = {1}
                    /\ calls[1] = Remote("play")
                    /\ (pc = "done" /\ error = "none")
                          => calls = <<Remote("play"), RequestRefresh>>
                    /\ (pc = "await" \/ error # "none")
                          => calls = <<Remote("play")>>)

\* C10 witness: media_pause while paused: nothing is issued.
C10_Witness ==
    /\ IsCommand("media_player", "media_pause")
    /\ seen = Some(Some(STATE_PAUSED))
    /\ pc = "done"
    /\ calls = << >>

\* --------------------------------------------------- claims on play_media
Commas(s) == {k \in 1..Len(s) : s[k] = ","}

Least(S) == CHOOSE k \in S : \A j \in S : k <= j

Greatest(S) == CHOOSE k \in S : \A j \in S : k >= j

\* s without its leading and trailing whitespace.
Trimmed(s) ==
    LET inked == {k \in 1..Len(s) : s[k] \notin Whitespace}
    IN  IF inked = {} THEN << >> ELSE SubSeq(s, Least(inked), Greatest(inked))

\* Where the escape of s[k] starts in the escape of s, less one: a character
\* that is not unreserved takes three places.
EscapeOffset(s, k) ==
    (k - 1) + 2 * Cardinality({j \in 1..(k - 1) : s[j] \notin Unreserved})

\* e is s URL-escaped with no safe characters.
IsUrlEscaped(e, s) ==
    /\ Len(e) = EscapeOffset(s, Len(s) + 1)
    /\ \A k \in 1..Len(s) :
          IF s[k] \in Unreserved
          THEN e[EscapeOffset(s, k) + 1] = s[k]
          ELSE SubSeq(e, EscapeOffset(s, k) + 1, EscapeOffset(s, k) + 3)
                  = PercentEncoded(s[k])

\* The invocation's first call launches app_id with contentId the escape of
\* content.
LaunchesWithContent(app_id, content) ==
    /\ calls[1].op = "launch"
    /\ calls[1].text = app_id
    /\ calls[1].params # None
    /\ IsUrlEscaped(calls[1].params[1], content)

\* What play_media does for the types other than app.
C6_OtherTypes ==
    /\ cmd.media_type = MEDIA_TYPE_CHANNEL =>
          /\ VendorCalls = {1}
          /\ calls[1] = Tune(cmd.text)
    /\ cmd.media_type = FORMAT_CONTENT_TYPE_HLS =>
          /\ VendorCalls = {1}
          /\ LaunchesWithContent(<<"d", "e", "v">>, cmd.text)
    /\ cmd.media_type \notin
          {MEDIA_TYPE_APP, MEDIA_TYPE_CHANNEL, FORMAT_CONTENT_TYPE_HLS} =>
          /\ calls = << >>
          /\ pc = "done"
          /\ outcome = "returned"

\* C6 as stated: channel tunes once and never launches; app launches once
\* and never tunes: for a comma-separated pair, the text before the comma
\* with contentId the escaped text after it, otherwise media_id without
\* parameters; a side-loaded stream launches "dev" with the escaped
\* media_id; any other type issues nothing and raises nothing.  A pair is
\* read as a media_id with exactly one comma; of a media_id with more
\* commas only the single launch is required.
C6_PlayMediaAsStated ==
    IsCommand("media_player", "play_media") =>
        /\ C6_OtherTypes
        /\ cmd.media_type = MEDIA_TYPE_APP =>
              /\ VendorCalls = {1}
              /\ calls[1].op = "launch"
              /\ Cardinality(Commas(cmd.text)) = 1 =>
                    LET c == Least(Commas(cmd.text))
                    IN  LaunchesWithContent(
                            SubSeq(cmd.text, 1, c - 1),
                            SubSeq(cmd.text, c + 1, Len(cmd.text)))
              /\ Commas(cmd.text) = {} => calls[1] = Launch(cmd.text, None)

\* C6 amended: as stated, but for type app: when media_id contains a comma,
\* the app launched is the text before the first comma with the whitespace
\* around it removed, and contentId is the escape of the text between the
\* first comma and the next comma (or the end), with the whitespace around
\* it removed; without a comma, media_id is launched as it is, without
\* parameters.
C6_PlayMediaTrimmed ==
    IsCommand("media_player", "play_media") =>
        /\ C6_OtherTypes
        /\ cmd.media_type = MEDIA_TYPE_APP =>
              /\ VendorCalls = {1}
              /\ IF Commas(cmd.text) # {}
                 THEN LET c == Least(Commas(cmd.text))
                          rest == SubSeq(cmd.text, c + 1, Len(cmd.text))
                          stop == IF Commas(rest) = {} THEN Len(rest)
                                  ELSE Least(Commas(rest)) - 1
                      IN  LaunchesWithContent(
                              Trimmed(SubSeq(cmd.text, 1, c - 1)),
                              Trimmed(SubSeq(rest, 1, stop)))
                 ELSE calls[1] = Launch(cmd.text, None)

\* C6 witness: play_media(app, "1,/") completed: app "1" launched with
\* contentId "%2F", then the refresh request.
C6_Witness ==
    /\ IsCommand("media_player", "play_media")
    /\ cmd.media_type = MEDIA_TYPE_APP
    /\ cmd.text = <<"1", ",", "/">>
    /\ pc = "done"
    /\ calls = <<Launch(<<"1">>, Some(<<"%", "2", "F">>)), RequestRefresh>>

====
